---- MODULE Spec2Model ----
(***************************************************************************)
(* Model of the video workflow web application: the session store          *)
(* (session_manager.py), the request handlers (app.py), the prompt planner *)
(* (prompt_generator.py) and the ffmpeg wrapper (video_processor.py).      *)
(* Requests are handled one at a time; every handler is one action.        *)
(***************************************************************************)
EXTENDS Integers, Sequences, FiniteSets, TLC

VARIABLES
    mem,      \* SessionManager._in_memory_sessions: session id -> SessionData
    disk,     \* sessions/<id>.json: session id -> durable record
    files,    \* the files under uploads/ that a later request tests or reads
    list_txt, \* uploads/<id>/list.txt: session id -> manifest lines
    issued,   \* the identifiers uuid4 has handed out so far
    resp,     \* the response to the last request
    inflight, \* the upload requests in progress: thread -> its position
    overlapped, \* history: two upload requests have been in progress at once
    poll      \* archive/video_generator.py: the call of poll_video_status

vars == <<mem, disk, files, list_txt, issued, resp, inflight, overlapped, poll>>

(***************************************************************************)
(* Bounds of the model.                                                    *)
(***************************************************************************)
MaxSessions == 1    \* identifiers uuid4 can hand out
MaxClips == 2       \* largest num_clips a create request carries
MaxUploads == 2     \* successful uploads recorded per session

SessionIds == 1..MaxSessions
NumClipsInputs == 0..MaxClips
StepNums == 1..(MaxClips + 1)

ApiKeys == {"", "sk"}
Descriptions == {"", "scene"}

(***************************************************************************)
(* Paths.  A path is its directory (the session id; 0 is /tmp), the file   *)
(* stem with its extension, and the step number the f-string puts in it.   *)
(***************************************************************************)
Path(d, f, n) == [dir |-> d, file |-> f, n |-> n]

NoPath == Path(0, "none", 0)
TempImagePath == Path(0, "temp_starting_image.jpg", 0)
StartingImageJpg(sid) == Path(sid, "starting_image.jpg", 0)
VideoPath(sid, step_num) == Path(sid, "step_N.mp4", step_num)
SilentVideoPath(sid, step_num) == Path(sid, "step_N_silent.mp4", step_num)
FramePath(sid, step_num) == Path(sid, "step_N_frame.jpg", step_num)
FinalOutput(sid) == Path(sid, "final_output.mp4", 0)

\* Path.name: the path without its directory
Name(p) == [file |-> p.file, n |-> p.n]

(***************************************************************************)
(* prompt_generator.py                                                     *)
(***************************************************************************)
\* What the chat completion call yields: a failure of some kind, or content
\* that parses as a JSON list of len elements.
GptResponses ==
    {[kind |-> k, len |-> 0] : k \in {"neterr", "notok", "nocontent", "badjson", "notlist"}}
    \cup {[kind |-> "list", len |-> n] : n \in 0..MaxClips}

\* The same, with a response that has no choices and with a list inside a
\* markdown fence, which call_openai_gpt strips before parsing.
PlanResponses ==
    GptResponses
    \cup {[kind |-> "nochoices", len |-> 0]}
    \cup {[kind |-> "fenced", len |-> n] : n \in 0..MaxClips}

\* the exception call_openai_gpt ends with, "none" when it returns
RaisedBy(num_clips, gpt) ==
    CASE gpt.kind = "neterr" -> "ConnectionError"
      [] gpt.kind = "notok" -> "RuntimeError"
      [] gpt.kind = "nochoices" -> "IndexError"
      [] gpt.kind = "nocontent" -> "RuntimeError"
      [] gpt.kind = "badjson" -> "RuntimeError"
      [] gpt.kind = "notlist" -> "ValueError"
      [] gpt.len # num_clips -> "ValueError"
      [] OTHER -> "none"

\* call_openai_gpt: it raises, or returns the parsed list of prompts
call_openai_gpt(scene_description, num_clips, gpt) ==
    LET exc == RaisedBy(num_clips, gpt)
    IN  IF exc # "none"
        THEN [raised |-> TRUE, exc |-> exc, prompts |-> << >>]
        ELSE [raised |-> FALSE, exc |-> exc,
              prompts |-> [i \in 1..gpt.len |-> "gpt clip " \o ToString(i)]]

\* the fallback loop with the numbering starting at 0
FallbackPrompts_from0(scene_description, num_clips) ==
    [i \in 1..num_clips |->
        scene_description \o " (deel " \o ToString(i - 1) \o " van "
                          \o ToString(num_clips) \o ")"]

\* the fallback loop: f"{scene_description} (deel {i+1} van {num_clips})"
FallbackPrompts(scene_description, num_clips) ==
    [i \in 1..num_clips |->
        scene_description \o " (deel " \o ToString(i) \o " van "
                          \o ToString(num_clips) \o ")"]

\* except that catches RuntimeError only
Caught_RuntimeError(exc) == exc = "RuntimeError"

\* except Exception: every class call_openai_gpt raises derives from it
Caught(exc) == exc \in {"ConnectionError", "RuntimeError", "IndexError", "ValueError"}

\* generate_clip_plan: whether an exception of the primary strategy escapes it
generate_clip_plan_raises(scene_description, num_clips, gpt) ==
    LET r == call_openai_gpt(scene_description, num_clips, gpt)
    IN  r.raised /\ ~Caught(r.exc)

generate_clip_plan(scene_description, num_clips, gpt) ==
    LET r == call_openai_gpt(scene_description, num_clips, gpt)
    IN  IF ~r.raised THEN r.prompts ELSE FallbackPrompts(scene_description, num_clips)

(***************************************************************************)
(* session_manager.py                                                      *)
(***************************************************************************)
SessionData(sid, desc, img, prompts, step, videos, frames, n, key) ==
    [session_id |-> sid, scene_description |-> desc, starting_image_path |-> img,
     prompts |-> prompts, current_step |-> step, uploaded_videos |-> videos,
     last_frames |-> frames, num_clips |-> n, openai_api_key |-> key]

\* to_dict that keeps the API key
to_dict_with_key(s) == [f \in DOMAIN s |-> s[f]]

\* SessionData.to_dict: every field but the API key
to_dict(s) == [f \in (DOMAIN s) \ {"openai_api_key"} |-> s[f]]

\* from_dict that starts the loaded session over at step 1
from_dict_step1(d) ==
    [f \in (DOMAIN d) \cup {"openai_api_key"} |->
        IF f = "current_step" THEN 1 ELSE IF f \in DOMAIN d THEN d[f] ELSE ""]

\* SessionData.from_dict: the API key is the empty string when absent
from_dict(d) ==
    [f \in (DOMAIN d) \cup {"openai_api_key"} |->
        IF f \in DOMAIN d THEN d[f] ELSE ""]

\* a session file whose write failed half way: json.load raises on it
Corrupt == [corrupt |-> TRUE]
None == [none |-> TRUE]

\* the outcomes of _save_session: written, open() raised, json.dump raised
SaveOutcomes == {"saved", "open_failed", "write_failed"}

\* dict assignment d[k] = v
Put(d, k, v) == [x \in (DOMAIN d) \cup {k} |-> IF x = k THEN v ELSE d[x]]
\* removal of key k
Del(d, k) == [x \in (DOMAIN d) \ {k} |-> d[x]]

\* _save_session: the durable records afterwards
save_session(dsk, session_data, outcome) ==
    CASE outcome = "saved" -> Put(dsk, session_data.session_id, to_dict(session_data))
      [] outcome = "write_failed" -> Put(dsk, session_data.session_id, Corrupt)
      [] OTHER -> dsk

\* get_session that reads the session file before the cache
get_session_file_first(m, dsk, session_id) ==
    IF session_id \in DOMAIN dsk /\ dsk[session_id] # Corrupt
    THEN from_dict(dsk[session_id])
    ELSE IF session_id \in DOMAIN m THEN m[session_id]
         ELSE None

\* get_session: the value returned
get_session(m, dsk, session_id) ==
    IF session_id \in DOMAIN m THEN m[session_id]
    ELSE IF session_id \in DOMAIN dsk /\ dsk[session_id] # Corrupt
         THEN from_dict(dsk[session_id])
         ELSE None

\* get_session: the cache afterwards (a loaded record is cached)
get_session_mem(m, dsk, session_id) ==
    IF session_id \notin DOMAIN m /\ get_session(m, dsk, session_id) # None
    THEN Put(m, session_id, get_session(m, dsk, session_id))
    ELSE m

\* add_uploaded_video without the append to last_frames
add_uploaded_video_no_frame(session, video_path, frame_path) ==
    [session EXCEPT
        !.uploaded_videos = Append(@, video_path),
        !.current_step = IF @ < session.num_clips THEN @ + 1 ELSE @]

\* add_uploaded_video: the record after the two appends and the step advance
add_uploaded_video(session, video_path, frame_path) ==
    [session EXCEPT
        !.uploaded_videos = Append(@, video_path),
        !.last_frames = Append(@, frame_path),
        !.current_step = IF @ < session.num_clips THEN @ + 1 ELSE @]

\* is_complete with > for >=
is_complete_strict(m, dsk, session_id) ==
    LET session == get_session(m, dsk, session_id)
    IN  IF session = None THEN FALSE
        ELSE Len(session.uploaded_videos) > session.num_clips

\* is_complete that asks for any video at all
is_complete_any(m, dsk, session_id) ==
    LET session == get_session(m, dsk, session_id)
    IN  IF session = None THEN FALSE
        ELSE Len(session.uploaded_videos) >= 1

\* is_complete
is_complete(m, dsk, session_id) ==
    LET session == get_session(m, dsk, session_id)
    IN  IF session = None THEN FALSE
        ELSE Len(session.uploaded_videos) >= session.num_clips

(***************************************************************************)
(* video_processor.py                                                      *)
(***************************************************************************)
\* one invocation of the external tool: what ran, on what, and how it exited
Invocation(tool, input, output, ok) ==
    [tool |-> tool, input |-> input, output |-> output, ok |-> ok]

strip_audio(input_video, output_video, ok) ==
    Invocation("strip_audio", input_video, output_video, ok)

extract_last_frame(input_video, output_image, ok) ==
    Invocation("extract_last_frame", input_video, output_image, ok)

\* concat_videos: the lines written to list.txt, f"file '{vf.name}'"
concat_manifest(video_files) == [i \in 1..Len(video_files) |-> Name(video_files[i])]

\* the outputs of the invocations that exited with status 0
Outputs(tools) == {tools[i].output : i \in {j \in 1..Len(tools) : tools[j].ok}}

\* run_ffmpeg that looks at the exit status of the first invocation only
AnyFailed_first(tools) == ~tools[1].ok

\* run_ffmpeg raises when the exit status is not 0
AnyFailed(tools) == \E i \in 1..Len(tools) : ~tools[i].ok

(***************************************************************************)
(* app.py: responses                                                       *)
(***************************************************************************)
Response(op, sid, step, kind, to, flash, image, tools) ==
    [op |-> op, sid |-> sid, step |-> step, kind |-> kind, to |-> to,
     flash |-> flash, image |-> image, tools |-> tools]

Redirect(op, sid, step, to, flash) ==
    Response(op, sid, step, "redirect", to, flash, NoPath, << >>)

Render(op, sid, step, template, image) ==
    Response(op, sid, step, "render", template, "", image, << >>)

NoResponse == Response("none", 0, 0, "none", "", "", NoPath, << >>)

VideoInputs == {"absent", "empty", "txt", "mp4"}
ImageFileInputs == {"absent", "empty", "txt", "jpg", "png", "png_undecodable"}
ImageUrlInputs == {"", "good", "bad"}

\* allowed_file that accepts every extension
allowed_file_any(file, extensions) == file \in extensions \cup {"txt"}

\* allowed_file on the file of a request
allowed_file(file, extensions) == file \in extensions

ALLOWED_VIDEO_EXTENSIONS == {"mp4"}
ALLOWED_IMAGE_EXTENSIONS == {"jpg", "png", "png_undecodable"}

(***************************************************************************)
(* app.py: create                                                          *)
(***************************************************************************)
Acquired(raised, path, written) == [raised |-> raised, path |-> path, written |-> written]

\* save_starting_image: the upload is saved under its extension and, unless
\* it is a .jpg, decoded and re-encoded as starting_image.jpg
save_starting_image(file, session_id) ==
    CASE file = "jpg" ->
            Acquired(FALSE, StartingImageJpg(session_id), {StartingImageJpg(session_id)})
      [] file = "png" ->
            Acquired(FALSE, StartingImageJpg(session_id), {StartingImageJpg(session_id)})
      [] OTHER ->
            Acquired(TRUE, NoPath, {Path(session_id, "starting_image.png", 0)})

\* download_image_from_url: requests.get or raise_for_status raises on a bad URL
download_image_from_url(url, session_id) ==
    IF url = "good"
    THEN Acquired(FALSE, StartingImageJpg(session_id), {StartingImageJpg(session_id)})
    ELSE Acquired(TRUE, NoPath, {})

\* the if/elif of create that picks the source of the starting image
starting_image(file, url, session_id) ==
    IF file # "absent"
    THEN IF file # "empty" /\ allowed_file(file, ALLOWED_IMAGE_EXTENSIONS)
         THEN save_starting_image(file, session_id)
         ELSE Acquired(FALSE, NoPath, {})
    ELSE IF url # ""
         THEN download_image_from_url(url, session_id)
         ELSE Acquired(FALSE, NoPath, {})

\* create_session: the record it builds
create_session(session_id, description, image, prompts, num_clips, api_key) ==
    SessionData(session_id, description, image, prompts, 1, << >>, << >>,
                num_clips, api_key)

\* update_session: setattr for every named field the record has
update_session(session, updates) ==
    [f \in DOMAIN session |-> IF f \in DOMAIN updates THEN updates[f] ELSE session[f]]

\* the cleanup of create: session_file.unlink() when the file exists
unlink_session_file(dsk, session_id) == Del(dsk, session_id)

Create(sid, key, desc, nc, gpt, file, url, s1, s2) ==
    /\ sid \notin issued
    /\ list_txt' = list_txt
    /\ IF key = ""
       THEN /\ resp' = Redirect("create", 0, 0, "index", "OpenAI API key is required")
            /\ UNCHANGED <<mem, disk, files, issued>>
       ELSE IF desc = ""
       THEN /\ resp' = Redirect("create", 0, 0, "index", "Scene description is required")
            /\ UNCHANGED <<mem, disk, files, issued>>
       ELSE LET prompts == generate_clip_plan(desc, nc, gpt)
                session == create_session(sid, desc, TempImagePath, prompts, nc, key)
                mem1 == Put(mem, sid, session)
                disk1 == save_session(disk, session, s1)
                img == starting_image(file, url, sid)
                updated == update_session(session, [starting_image_path |-> img.path])
            IN  /\ issued' = issued \cup {sid}
                /\ files' = files \cup img.written
                /\ IF img.raised
                   THEN /\ mem' = mem1
                        /\ disk' = disk1
                        /\ resp' = Redirect("create", sid, 0, "index", "Error creating session")
                   ELSE IF img.path = NoPath \/ img.path \notin files'
                   THEN /\ mem' = mem1
                        /\ disk' = unlink_session_file(disk1, sid)
                        /\ resp' = Redirect("create", sid, 0, "index",
                                            "Starting image is required")
                   ELSE /\ mem' = Put(mem1, sid, updated)
                        /\ disk' = save_session(disk1, updated, s2)
                        /\ resp' = Redirect("create", sid, 0, "plan", "")

(***************************************************************************)
(* app.py: upload                                                          *)
(***************************************************************************)
\* the try block of upload with extract_last_frame run on the uploaded file
upload_tools_raw_frame(session_id, step_num, strip_ok, extract_ok) ==
    LET video_path == VideoPath(session_id, step_num)
        silent_video_path == SilentVideoPath(session_id, step_num)
        frame_path == FramePath(session_id, step_num)
        stripped == strip_audio(video_path, silent_video_path, strip_ok)
    IN  IF ~strip_ok THEN <<stripped>>
        ELSE <<stripped, extract_last_frame(video_path, frame_path, extract_ok)>>

\* the try block of upload up to the session update: strip_audio on the
\* saved upload (step_N.mp4, read by nothing else), then extract_last_frame
\* on its output unless strip_audio raised
upload_tools(session_id, step_num, strip_ok, extract_ok) ==
    LET video_path == VideoPath(session_id, step_num)
        silent_video_path == SilentVideoPath(session_id, step_num)
        frame_path == FramePath(session_id, step_num)
        stripped == strip_audio(video_path, silent_video_path, strip_ok)
    IN  IF ~strip_ok THEN <<stripped>>
        ELSE <<stripped, extract_last_frame(silent_video_path, frame_path, extract_ok)>>

Upload(sid, step_num, file, saves) ==
    LET session == get_session(mem, disk, sid)
        mem1 == get_session_mem(mem, disk, sid)
        bad(flash) ==
            /\ resp' = Redirect("upload", sid, step_num, "step", flash)
            /\ mem' = mem1
            /\ UNCHANGED <<disk, files>>
    IN  /\ UNCHANGED <<list_txt, issued>>
        /\ IF session = None
           THEN /\ resp' = Redirect("upload", sid, step_num, "index", "Session not found")
                /\ UNCHANGED <<mem, disk, files>>
           ELSE /\ Len(session.uploaded_videos) < MaxUploads
                /\ IF file = "absent" THEN bad("No video file provided")
                   ELSE IF file = "empty" THEN bad("No video file selected")
                   ELSE IF ~allowed_file(file, ALLOWED_VIDEO_EXTENSIONS)
                   THEN bad("Invalid file type")
                   ELSE \E strip_ok \in BOOLEAN, extract_ok \in BOOLEAN :
                        LET tools == upload_tools(sid, step_num, strip_ok, extract_ok)
                            updated == add_uploaded_video(session,
                                           SilentVideoPath(sid, step_num),
                                           FramePath(sid, step_num))
                        IN  /\ files' = files \cup Outputs(tools)
                            /\ IF AnyFailed(tools)
                               THEN /\ mem' = mem1
                                    /\ disk' = disk
                                    /\ resp' = Response("upload", sid, step_num, "redirect",
                                                   "step", "Error processing video",
                                                   NoPath, tools)
                               ELSE \E s \in saves :
                                    /\ mem' = Put(mem1, sid, updated)
                                    /\ disk' = save_session(disk, updated, s)
                                    /\ resp' = Response("upload", sid, step_num, "redirect",
                                                   IF step_num < Len(session.prompts)
                                                   THEN "next_step" ELSE "combine",
                                                   "", NoPath, tools)

(***************************************************************************)
(* app.py: final concatenation                                             *)
(***************************************************************************)
concat_videos(session_id, join_ok) ==
    Invocation("concat", Path(session_id, "list.txt", 0), FinalOutput(session_id), join_ok)

\* the videos generate_final hands to concat_videos
video_files(session) == session.uploaded_videos

\* the lines list.txt of the session holds, none when it does not exist
list_lines(lt, session_id) ==
    IF session_id \in DOMAIN lt THEN lt[session_id] ELSE << >>

\* list.txt opened with "a": the lines are added to those it has
write_list_append(old_lines, lines) == old_lines \o lines

\* list_file.open("w"): the file holds the lines written and nothing else
write_list(old_lines, lines) == lines

\* concat_videos: list.txt of every session after the manifest is written
manifest_written(lt, session_id, session) ==
    Put(lt, session_id,
        write_list(list_lines(lt, session_id), concat_manifest(video_files(session))))

GenerateFinal(sid, join_ok, partial) ==
    LET session == get_session(mem, disk, sid)
        mem1 == get_session_mem(mem, disk, sid)
    IN  /\ UNCHANGED <<disk, issued>>
        /\ IF session = None
           THEN /\ resp' = Redirect("generate_final", sid, 0, "index", "Session not found")
                /\ UNCHANGED <<mem, files, list_txt>>
           ELSE IF ~is_complete(mem1, disk, sid)
           THEN /\ resp' = Redirect("generate_final", sid, 0, "plan",
                                    "Not all videos have been uploaded")
                /\ mem' = mem1
                /\ UNCHANGED <<files, list_txt>>
           ELSE IF \E i \in 1..Len(video_files(session)) : video_files(session)[i] \notin files
           THEN /\ resp' = Redirect("generate_final", sid, 0, "combine",
                                    "Video file not found")
                /\ mem' = mem1
                /\ UNCHANGED <<files, list_txt>>
           ELSE /\ mem' = mem1
                /\ list_txt' = manifest_written(list_txt, sid, session)
                /\ files' = files \cup (IF join_ok \/ partial THEN {FinalOutput(sid)} ELSE {})
                /\ resp' = Response("generate_final", sid, 0, "redirect", "combine",
                               IF join_ok THEN "Video combination complete!"
                               ELSE "Error combining videos",
                               NoPath, <<concat_videos(sid, join_ok)>>)

(***************************************************************************)
(* app.py: the views                                                       *)
(***************************************************************************)
\* seq[i] with Python's indexing: 0-based, negative indices count from the
\* end, IndexError outside -len..len-1
InRange(seq, i) == -Len(seq) <= i /\ i < Len(seq)
Item(seq, i) == IF i >= 0 THEN seq[i + 1] ELSE seq[Len(seq) + i + 1]

\* the image of a step: the starting image for step 1, else
\* last_frames[step_num - 2] when the list is long enough
HasImage(session, step_num) ==
    step_num = 1 \/ Len(session.last_frames) >= step_num - 1

image_path(session, step_num) ==
    IF step_num = 1 THEN session.starting_image_path
    ELSE Item(session.last_frames, step_num - 2)

Index ==
    /\ resp' = Render("index", 0, 0, "index.html", NoPath)
    /\ UNCHANGED <<mem, disk, files, list_txt, issued>>

Plan(sid) ==
    LET session == get_session(mem, disk, sid)
    IN  /\ UNCHANGED <<disk, files, list_txt, issued>>
        /\ mem' = get_session_mem(mem, disk, sid)
        /\ resp' = IF session = None
                   THEN Redirect("plan", sid, 0, "index", "Session not found")
                   ELSE Render("plan", sid, 0, "plan.html",
                               IF session.starting_image_path \in files
                               THEN session.starting_image_path ELSE NoPath)

Step(sid, step_num) ==
    LET session == get_session(mem, disk, sid)
    IN  /\ UNCHANGED <<disk, files, list_txt, issued>>
        /\ mem' = get_session_mem(mem, disk, sid)
        /\ resp' =
            IF session = None
            THEN Redirect("step", sid, step_num, "index", "Session not found")
            ELSE IF step_num < 1 \/ step_num > Len(session.prompts)
            THEN Redirect("step", sid, step_num, "plan", "Invalid step number")
            ELSE IF ~HasImage(session, step_num)
            THEN Redirect("step", sid, step_num, "plan", "Previous step not completed")
            ELSE IF image_path(session, step_num) \notin files
            THEN Redirect("step", sid, step_num, "plan", "Image not found")
            ELSE Render("step", sid, step_num, "step.html", image_path(session, step_num))

Combine(sid) ==
    LET session == get_session(mem, disk, sid)
        mem1 == get_session_mem(mem, disk, sid)
    IN  /\ UNCHANGED <<disk, files, list_txt, issued>>
        /\ mem' = mem1
        /\ resp' =
            IF session = None
            THEN Redirect("combine", sid, 0, "index", "Session not found")
            ELSE IF ~is_complete(mem1, disk, sid)
            THEN Redirect("combine", sid, 0, "plan", "Not all videos have been uploaded")
            ELSE Render("combine", sid, 0, "combine.html",
                        IF FinalOutput(sid) \in files THEN FinalOutput(sid) ELSE NoPath)

Download(sid) ==
    LET session == get_session(mem, disk, sid)
    IN  /\ UNCHANGED <<disk, files, list_txt, issued>>
        /\ mem' = get_session_mem(mem, disk, sid)
        /\ resp' =
            IF session = None
            THEN Redirect("download", sid, 0, "index", "Session not found")
            ELSE IF FinalOutput(sid) \notin files
            THEN Redirect("download", sid, 0, "combine", "Final video not found")
            ELSE Response("download", sid, 0, "send_file", "", "", FinalOutput(sid), << >>)

GetImage(sid, step_num) ==
    LET session == get_session(mem, disk, sid)
        status(kind, flash) == Response("image", sid, step_num, kind, "", flash, NoPath, << >>)
    IN  /\ UNCHANGED <<disk, files, list_txt, issued>>
        /\ mem' = get_session_mem(mem, disk, sid)
        /\ resp' =
            IF session = None THEN status("404", "Session not found")
            ELSE IF ~HasImage(session, step_num) THEN status("404", "Image not found")
            ELSE IF step_num # 1 /\ ~InRange(session.last_frames, step_num - 2)
            THEN status("500", "IndexError")
            ELSE IF image_path(session, step_num) \notin files
            THEN status("404", "Image not found")
            ELSE Response("image", sid, step_num, "send_file", "", "",
                          image_path(session, step_num), << >>)

(***************************************************************************)
(* The process starts (or starts again) with an empty cache.               *)
(***************************************************************************)
EmptyDict == [x \in {} |-> None]

\* poll_video_status at the head of its loop: the counter, the status
\* requests and the sleeps so far, the last answer, and how the call ended,
\* if it has
PollState(poll_count, requests, sleeps, last, result) ==
    [poll_count |-> poll_count, requests |-> requests, sleeps |-> sleeps,
     last |-> last, result |-> result]

Restart ==
    /\ mem' = EmptyDict
    /\ resp' = NoResponse
    /\ UNCHANGED <<disk, files, list_txt, issued>>

Init ==
    /\ mem = EmptyDict
    /\ disk = EmptyDict
    /\ files = {}
    /\ list_txt = EmptyDict
    /\ issued = {}
    /\ resp = NoResponse
    /\ inflight = EmptyDict
    /\ overlapped = FALSE
    /\ poll = PollState(0, 0, 0, "none", "running")

\* a request handled from start to end with no other request in progress
\* (and the batch variant is not involved)
Serial == UNCHANGED <<inflight, overlapped, poll>>

Next ==
    \/ \E sid \in SessionIds, key \in ApiKeys, desc \in Descriptions,
          nc \in NumClipsInputs, gpt \in GptResponses, file \in ImageFileInputs,
          url \in ImageUrlInputs :
            Create(sid, key, desc, nc, gpt, file, url, "saved", "saved") /\ Serial
    \/ \E sid \in SessionIds, step_num \in StepNums, file \in VideoInputs :
            Upload(sid, step_num, file, {"saved"}) /\ Serial
    \/ \E sid \in SessionIds, join_ok \in BOOLEAN, partial \in BOOLEAN :
            GenerateFinal(sid, join_ok, partial) /\ Serial
    \/ Index /\ Serial
    \/ \E sid \in SessionIds : Plan(sid) /\ Serial
    \/ \E sid \in SessionIds, step_num \in StepNums : Step(sid, step_num) /\ Serial
    \/ \E sid \in SessionIds : Combine(sid) /\ Serial
    \/ \E sid \in SessionIds : Download(sid) /\ Serial
    \/ \E sid \in SessionIds, step_num \in StepNums : GetImage(sid, step_num) /\ Serial
    \/ Restart /\ Serial

\* Requests one at a time, in any order; every durable write succeeds.
Spec == Init /\ [][Next]_vars

(***************************************************************************)
(* The session store on its own: create, get, update and appendUpload      *)
(* called directly, for two sessions, with durable writes that can fail.   *)
(***************************************************************************)
\* identifiers are fresh at every create; the model names them in the order
\* of their creation
StoreIds == 1..(MaxSessions + 1)
\* the clip counts the store is created with: none, and the largest
StoreClips == {0, MaxClips}

\* what a store operation returned, and how its durable write ended
StoreResult(op, sid, result, outcome) ==
    [op |-> op, sid |-> sid, result |-> result, outcome |-> outcome]

\* the keyword arguments of an update_session call for session sid: the
\* starting image, as create passes it, and a name SessionData does not have
UpdateInputs(sid) ==
    {[starting_image_path |-> StartingImageJpg(sid)], [no_such_field |-> 0]}

\* update_session takes any keyword: here the identifier of another session
IdentityInputs(sid) ==
    {[session_id |-> other] : other \in issued \ {sid}}

StoreCreate(sid, nc, s) ==
    LET session == create_session(sid, "scene", TempImagePath,
                                  FallbackPrompts("scene", nc), nc, "sk")
    IN  /\ sid \notin issued
        /\ \A earlier \in 1..(sid - 1) : earlier \in issued
        /\ issued' = issued \cup {sid}
        /\ mem' = Put(mem, sid, session)
        /\ disk' = save_session(disk, session, s)
        /\ resp' = StoreResult("create", sid, [session_id |-> sid], s)
        /\ UNCHANGED <<files, list_txt>>

StoreGet(sid) ==
    /\ mem' = get_session_mem(mem, disk, sid)
    /\ resp' = StoreResult("get", sid, get_session(mem, disk, sid), "none")
    /\ UNCHANGED <<disk, files, list_txt, issued>>

StoreUpdate(sid, updates, s) ==
    LET session == get_session(mem, disk, sid)
        updated == update_session(session, updates)
    IN  /\ UNCHANGED <<files, list_txt, issued>>
        /\ IF session = None
           THEN /\ resp' = StoreResult("update", sid, [ok |-> FALSE], "none")
                /\ UNCHANGED <<mem, disk>>
           ELSE /\ mem' = Put(mem, sid, updated)
                /\ disk' = save_session(disk, updated, s)
                /\ resp' = StoreResult("update", sid, [ok |-> TRUE], s)

\* the caller appends the clip of the next slot, as upload does for the
\* step the page was opened on
StoreAppend(sid, s) ==
    LET session == get_session(mem, disk, sid)
        step_num == Len(session.uploaded_videos) + 1
        updated == add_uploaded_video(session, SilentVideoPath(sid, step_num),
                                      FramePath(sid, step_num))
    IN  /\ UNCHANGED <<files, list_txt, issued>>
        /\ IF session = None
           THEN /\ resp' = StoreResult("append", sid, [ok |-> FALSE], "none")
                /\ UNCHANGED <<mem, disk>>
           ELSE /\ Len(session.uploaded_videos) < MaxUploads
                /\ mem' = Put(mem, sid, updated)
                /\ disk' = save_session(disk, updated, s)
                /\ resp' = StoreResult("append", sid, [ok |-> TRUE], s)

NextStore ==
    \/ \E sid \in StoreIds, nc \in StoreClips, s \in SaveOutcomes :
            StoreCreate(sid, nc, s) /\ Serial
    \/ \E sid \in StoreIds : StoreGet(sid) /\ Serial
    \/ \E sid \in StoreIds, s \in SaveOutcomes :
            \E updates \in UpdateInputs(sid) : StoreUpdate(sid, updates, s) /\ Serial
    \/ \E sid \in StoreIds, s \in SaveOutcomes : StoreAppend(sid, s) /\ Serial
    \/ Restart /\ Serial

\* Store operations one at a time, in any order; a durable write can fail.
SpecStore == Init /\ [][NextStore]_vars

NextStoreAnyField ==
    \/ \E sid \in StoreIds : StoreCreate(sid, MaxClips, "saved") /\ Serial
    \/ \E sid \in StoreIds : StoreGet(sid) /\ Serial
    \/ \E sid \in StoreIds :
            \E updates \in UpdateInputs(sid) \cup IdentityInputs(sid) :
                StoreUpdate(sid, updates, "saved") /\ Serial
    \/ \E sid \in StoreIds : StoreAppend(sid, "saved") /\ Serial
    \/ Restart /\ Serial

\* Store operations whose durable writes succeed, where an update may name
\* any field of the record, the identifier included.
SpecStoreAnyField == Init /\ [][NextStoreAnyField]_vars

(***************************************************************************)
(* Upload requests served by threads of one process: each request is a     *)
(* sequence of steps on the cached session object the threads share, and    *)
(* the steps of different requests interleave freely.                       *)
(***************************************************************************)
MaxThreads == 2
Threads == 1..MaxThreads

\* session.uploaded_videos.append(video_path)
append_video(session, video_path) ==
    [session EXCEPT !.uploaded_videos = Append(@, video_path)]

\* the frame put in front of the list instead of at its end
append_frame_front(session, frame_path) ==
    [session EXCEPT !.last_frames = <<frame_path>> \o @]

\* session.last_frames.append(frame_path)
append_frame(session, frame_path) ==
    [session EXCEPT !.last_frames = Append(@, frame_path)]

\* if session.current_step < session.num_clips: session.current_step += 1
advance_step(session) ==
    [session EXCEPT !.current_step = IF @ < session.num_clips THEN @ + 1 ELSE @]

\* the position of a request: where it is, in which session, for which step
Request(pc, sid, step_num) == [pc |-> pc, sid |-> sid, step |-> step_num]

\* the session is created by a request that runs alone
RaceCreate(sid, nc) ==
    /\ Create(sid, "sk", "scene", nc, [kind |-> "neterr", len |-> 0], "jpg", "",
              "saved", "saved")
    /\ Serial

\* upload up to the call of add_uploaded_video: the session is looked up,
\* the file is accepted and saved, both tools exit with status 0
UploadBegin(t, sid, step_num) ==
    /\ t \notin DOMAIN inflight
    /\ get_session(mem, disk, sid) # None
    /\ Len(get_session(mem, disk, sid).uploaded_videos)
          + Cardinality(DOMAIN inflight) < MaxUploads
    /\ mem' = get_session_mem(mem, disk, sid)
    /\ files' = files \cup Outputs(upload_tools(sid, step_num, TRUE, TRUE))
    /\ inflight' = Put(inflight, t, Request("append_video", sid, step_num))
    /\ overlapped' = (overlapped \/ DOMAIN inflight # {})
    /\ UNCHANGED <<disk, list_txt, issued, resp, poll>>

\* one step of a request on the cached object, and where it goes next
RequestStep(t, pc, session, next) ==
    /\ t \in DOMAIN inflight
    /\ inflight[t].pc = pc
    /\ mem' = Put(mem, inflight[t].sid, session)
    /\ inflight' = Put(inflight, t, Request(next, inflight[t].sid, inflight[t].step))
    /\ UNCHANGED <<disk, files, list_txt, issued, resp, overlapped, poll>>

AppendVideo(t) ==
    /\ t \in DOMAIN inflight
    /\ RequestStep(t, "append_video",
                   append_video(mem[inflight[t].sid],
                                SilentVideoPath(inflight[t].sid, inflight[t].step)),
                   "append_frame")

AppendFrame(t) ==
    /\ t \in DOMAIN inflight
    /\ RequestStep(t, "append_frame",
                   append_frame(mem[inflight[t].sid],
                                FramePath(inflight[t].sid, inflight[t].step)),
                   "advance")

AdvanceStep(t) ==
    /\ t \in DOMAIN inflight
    /\ RequestStep(t, "advance", advance_step(mem[inflight[t].sid]), "save")

\* _save_session of the object as it is now, then the redirect of upload
SaveAndRespond(t) ==
    /\ t \in DOMAIN inflight
    /\ inflight[t].pc = "save"
    /\ disk' = save_session(disk, mem[inflight[t].sid], "saved")
    /\ resp' = Response("upload", inflight[t].sid, inflight[t].step, "redirect",
                        IF inflight[t].step < Len(mem[inflight[t].sid].prompts)
                        THEN "next_step" ELSE "combine", "", NoPath,
                        upload_tools(inflight[t].sid, inflight[t].step, TRUE, TRUE))
    /\ inflight' = Del(inflight, t)
    /\ UNCHANGED <<mem, files, list_txt, issued, overlapped, poll>>

NextRace ==
    \/ \E sid \in SessionIds, nc \in 1..MaxClips : RaceCreate(sid, nc)
    \/ \E t \in Threads, sid \in SessionIds, step_num \in 1..MaxClips :
            UploadBegin(t, sid, step_num)
    \/ \E t \in Threads : AppendVideo(t)
    \/ \E t \in Threads : AppendFrame(t)
    \/ \E t \in Threads : AdvanceStep(t)
    \/ \E t \in Threads : SaveAndRespond(t)

\* Upload requests of one process whose steps interleave.
SpecRace == Init /\ [][NextRace]_vars

(***************************************************************************)
(* archive/video_generator.py: poll_video_status, one loop iteration per   *)
(* step, for every answer the status endpoint can give.                    *)
(***************************************************************************)
max_polls == 120

\* what one status request yields: requests.get raises, a non-OK response,
\* or an OK response with a status
PollAnswers ==
    {"neterr", "notok", "completed", "failed", "pending", "processing", "unknown"}

\* the loop condition with <= for <
poll_continues_le(poll_count) == poll_count <= max_polls

\* while poll_count < max_polls
poll_continues(poll_count) == poll_count < max_polls

\* one iteration of the loop: the request, and the branch its answer takes
PollOnce(answer) ==
    /\ poll.result = "running"
    /\ poll_continues(poll.poll_count)
    /\ poll' =
        CASE answer = "neterr" ->
                PollState(poll.poll_count, poll.requests + 1, poll.sleeps, answer,
                          "raised ConnectionError")
          [] answer = "notok" ->
                PollState(poll.poll_count, poll.requests + 1, poll.sleeps, answer,
                          "raised Status request failed")
          [] answer = "completed" ->
                PollState(poll.poll_count, poll.requests + 1, poll.sleeps, answer, "returned")
          [] answer = "failed" ->
                PollState(poll.poll_count, poll.requests + 1, poll.sleeps, answer,
                          "raised Video generation failed")
          [] OTHER ->
                PollState(poll.poll_count + 1, poll.requests + 1, poll.sleeps + 1, answer,
                          "running")
    /\ UNCHANGED <<mem, disk, files, list_txt, issued, resp, inflight, overlapped>>

\* the loop ends with the counter at max_polls: the raise after it
PollTimeout ==
    /\ poll.result = "running"
    /\ ~poll_continues(poll.poll_count)
    /\ poll' = PollState(poll.poll_count, poll.requests, poll.sleeps, poll.last,
                         "raised Video generation timeout")
    /\ UNCHANGED <<mem, disk, files, list_txt, issued, resp, inflight, overlapped>>

NextPoll ==
    \/ \E answer \in PollAnswers : PollOnce(answer)
    \/ PollTimeout

\* The call runs on: a request that was sent is answered (or raises), a
\* sleep ends.
SpecPoll == Init /\ [][NextPoll]_vars /\ WF_vars(NextPoll)

(***************************************************************************)
(* Properties.                                                             *)
(***************************************************************************)
\* the step numbers a response names: its flash text is a constant string
\* and names none, so the only one is the step of the page it concerns
reported_steps(r) == IF r.step = 0 THEN {} ELSE {r.step}

\* the response reports a failure: an error flash, a 404 or a 500
IsError(r) ==
    \/ r.kind \in {"404", "500"}
    \/ r.flash \notin {"", "Video combination complete!"}

\* the create request of the session ran to its end (the temporary image
\* path was replaced by the real one)
Created(session) == session.starting_image_path # TempImagePath

Min(a, b) == IF a <= b THEN a ELSE b

\* C1: an upload for step K > number of uploaded videos + 1 fails and leaves
\* the session record as it was.
C1_SkipAheadRejected ==
    [][\A sid \in SessionIds :
        LET before == get_session(mem, disk, sid)
        IN  (/\ resp'.op = "upload" /\ resp'.sid = sid
             /\ before # None /\ Created(before)
             /\ resp'.step > Len(before.uploaded_videos) + 1)
            => (IsError(resp') /\ get_session(mem', disk', sid) = before)]_vars

\* C2: in every reachable state the list of uploaded videos and the list of
\* last frames of every session, cached or durable, have the same length.
C2_ListsSameLength ==
    \A sid \in SessionIds :
        /\ sid \in DOMAIN mem =>
              Len(mem[sid].uploaded_videos) = Len(mem[sid].last_frames)
        /\ (sid \in DOMAIN disk /\ disk[sid] # Corrupt) =>
              Len(disk[sid].uploaded_videos) = Len(disk[sid].last_frames)

\* an upload was recorded, a concatenation ran, and a later upload failed
C2_Witness ==
    \E sid \in DOMAIN mem :
        /\ Len(mem[sid].uploaded_videos) >= 1
        /\ sid \in DOMAIN list_txt
        /\ resp.op = "upload" /\ resp.sid = sid /\ IsError(resp) /\ resp.tools # << >>

\* C3: after every successful upload current_step is
\* min(len(uploaded_videos) + 1, num_clips).
C3_StepAfterUpload ==
    \A sid \in SessionIds :
        (/\ resp.op = "upload" /\ resp.sid = sid /\ ~IsError(resp)
         /\ Created(mem[sid]))
        => mem[sid].current_step =
              Min(Len(mem[sid].uploaded_videos) + 1, mem[sid].num_clips)

\* C4: current_step never exceeds num_clips, in any state of any session.
C4_StepAtMostClips ==
    \A sid \in SessionIds :
        LET session == get_session(mem, disk, sid)
        IN  (session # None /\ Created(session))
            => session.current_step <= session.num_clips

\* C5: is_complete(id) is true exactly when the record of id, cached or
\* else durable, has at least num_clips uploaded videos; it is false for an
\* identifier the store does not know.  The combine page is rendered exactly
\* for a complete session.
C5_IsCompleteIff ==
    /\ \A sid \in SessionIds :
          LET cached == sid \in DOMAIN mem
              stored == sid \in DOMAIN disk /\ disk[sid] # Corrupt
              rec == IF cached THEN mem[sid] ELSE disk[sid]
          IN  is_complete(mem, disk, sid) <=>
                  /\ cached \/ stored
                  /\ Len(rec.uploaded_videos) >= rec.num_clips
    /\ (resp.op = "combine" /\ resp.sid \in DOMAIN mem) =>
          (resp.kind = "render" <=>
              Len(mem[resp.sid].uploaded_videos) >= mem[resp.sid].num_clips)

\* the combine page was rendered for a session with exactly num_clips >= 1
\* videos while another identifier is unknown to the store
C5_Witness ==
    /\ resp.op = "combine" /\ resp.kind = "render"
    /\ resp.sid \in DOMAIN mem
    /\ mem[resp.sid].num_clips >= 1
    /\ Len(mem[resp.sid].uploaded_videos) = mem[resp.sid].num_clips

\* C6: final concatenation of a session with fewer than num_clips videos is
\* refused: the join tool is not invoked, no manifest and no output file is
\* written, and the record stays as it was.
C6_IncompleteConcatRefused ==
    [][\A sid \in SessionIds :
        LET before == get_session(mem, disk, sid)
        IN  (/\ resp'.op = "generate_final" /\ resp'.sid = sid
             /\ before # None
             /\ Len(before.uploaded_videos) < before.num_clips)
            => (/\ IsError(resp')
                /\ resp'.tools = << >>
                /\ list_txt' = list_txt
                /\ files' = files
                /\ disk' = disk
                /\ get_session(mem', disk', sid) = before)]_vars

\* concatenation was refused for a session that has some but not all videos
C6_Witness ==
    /\ resp.op = "generate_final"
    /\ resp.flash = "Not all videos have been uploaded"
    /\ resp.sid \in DOMAIN mem
    /\ Len(mem[resp.sid].uploaded_videos) = 1
    /\ mem[resp.sid].num_clips = 2
    /\ resp.sid \notin DOMAIN list_txt

\* C7: an upload changes the record only after strip_audio and then
\* extract_last_frame both exited with status 0; when either fails the upload
\* is reported as failed, no tool is run again, and the record is unchanged.
C7_MutateOnlyAfterBothTools ==
    [][\A sid \in SessionIds :
        LET before == get_session(mem, disk, sid)
            after == get_session(mem', disk', sid)
            t == resp'.tools
        IN  (resp'.op = "upload" /\ resp'.sid = sid /\ before # None)
            => (/\ after # before =>
                      /\ Len(t) = 2
                      /\ t[1].tool = "strip_audio" /\ t[1].ok
                      /\ t[2].tool = "extract_last_frame" /\ t[2].ok
                      /\ Len(after.uploaded_videos) = Len(before.uploaded_videos) + 1
                      /\ Len(after.last_frames) = Len(before.last_frames) + 1
                /\ (\E i \in 1..Len(t) : ~t[i].ok) =>
                      /\ IsError(resp')
                      /\ after = before
                      /\ disk' = disk
                /\ Len(t) <= 2
                /\ \A i, j \in 1..Len(t) : i # j => t[i].tool # t[j].tool)]_vars

\* the frame extraction of the second upload of a session failed
C7_Witness ==
    /\ resp.op = "upload" /\ IsError(resp)
    /\ Len(resp.tools) = 2 /\ resp.tools[1].ok /\ ~resp.tools[2].ok
    /\ resp.sid \in DOMAIN mem
    /\ Len(mem[resp.sid].uploaded_videos) = 1

\* C8: the image served for step 1 is the starting image, and the image
\* served for step K, 2 <= K <= num_clips, is the frame extracted from the
\* video uploaded for step K-1.
C8_LastFrameChaining ==
    \A sid \in SessionIds :
        (/\ resp.op \in {"step", "image"} /\ resp.sid = sid
         /\ resp.kind \in {"render", "send_file"}
         /\ Created(mem[sid]))
        => /\ resp.step = 1 => resp.image = mem[sid].starting_image_path
           /\ (2 <= resp.step /\ resp.step <= mem[sid].num_clips)
                 => resp.image = FramePath(sid, resp.step - 1)

\* C9: the manifest written when the join tool is invoked has one entry per
\* step, entry i naming the audio-free video of step i, i = 1..num_clips.
C9_ManifestComplete ==
    \A sid \in SessionIds :
        (/\ resp.op = "generate_final" /\ resp.sid = sid
         /\ resp.tools # << >>
         /\ Created(mem[sid])
         /\ mem[sid].num_clips >= 1)
        => list_txt[sid] =
              [i \in 1..mem[sid].num_clips |-> Name(SilentVideoPath(sid, i))]

\* C10: after a create request that failed once its session record existed,
\* get(id) returns absent and no durable record of id exists.
C10_FailedCreateDiscarded ==
    (resp.op = "create" /\ resp.sid # 0 /\ IsError(resp))
    => (/\ get_session(mem, disk, resp.sid) = None
        /\ resp.sid \notin DOMAIN disk)

(***************************************************************************)
(* The prompt planner on its own: generate_clip_plan applied to every      *)
(* description, clip count and answer of the text-generation service.      *)
(***************************************************************************)
PlanDescriptions == Descriptions \cup {"a cat exploring a garden"}
\* int(request.form['num_clips']) is any integer
PlanClipCounts == (0 - 1)..(MaxClips + 1)

PlanResult(scene_description, num_clips, gpt, prompts, raised) ==
    [op |-> "plan", scene_description |-> scene_description,
     num_clips |-> num_clips, gpt |-> gpt, prompts |-> prompts, raised |-> raised]

PlanClips(scene_description, num_clips, gpt) ==
    /\ resp' = PlanResult(scene_description, num_clips, gpt,
                          generate_clip_plan(scene_description, num_clips, gpt),
                          generate_clip_plan_raises(scene_description, num_clips, gpt))
    /\ UNCHANGED <<mem, disk, files, list_txt, issued>>

NextPlan ==
    \E scene_description \in PlanDescriptions, num_clips \in PlanClipCounts,
       gpt \in PlanResponses : PlanClips(scene_description, num_clips, gpt) /\ Serial

SpecPlan == Init /\ [][NextPlan]_vars

(***************************************************************************)
(* Properties of the session store (SpecStore).                            *)
(***************************************************************************)
\* C11: no durable session record carries the credential field: in every
\* reachable state of the store, after create, update, appendUpload and a
\* restart alike, no session file has an openai_api_key entry, whatever the
\* cached record holds.
C11_NoCredentialInDurable ==
    \A sid \in DOMAIN disk : "openai_api_key" \notin DOMAIN disk[sid]

\* an upload was appended and written for a session whose cached record
\* carries a credential
C11_Witness ==
    /\ resp.op = "append"
    /\ resp.outcome = "saved"
    /\ resp.sid \in DOMAIN mem
    /\ mem[resp.sid].openai_api_key = "sk"
    /\ resp.sid \in DOMAIN disk
    /\ disk[resp.sid] = to_dict(mem[resp.sid])

\* C12: get(id) returns the cached record whenever the cache holds id,
\* whatever durable storage holds; on a cache miss it returns the record
\* loaded from durable storage, which is in the cache afterwards; it returns
\* absent exactly when neither the cache nor durable storage has a readable
\* record for id.  Durable storage is never changed by a get.
C12_GetCacheFirst ==
    [][resp'.op = "get" =>
        LET sid == resp'.sid
            cached == sid \in DOMAIN mem
            readable == sid \in DOMAIN disk /\ disk[sid] # Corrupt
        IN  /\ cached => (resp'.result = mem[sid] /\ mem' = mem)
            /\ (~cached /\ readable) =>
                  /\ \A f \in DOMAIN disk[sid] : resp'.result[f] = disk[sid][f]
                  /\ sid \in DOMAIN mem'
                  /\ mem'[sid] = resp'.result
                  /\ \A other \in DOMAIN mem : mem'[other] = mem[other]
            /\ (resp'.result = None) <=> (~cached /\ ~readable)
            /\ (resp'.result = None) => mem' = mem
            /\ disk' = disk]_vars

\* a get answered from the cache while the session file holds a different,
\* readable record
C12_Witness ==
    /\ resp.op = "get"
    /\ resp.sid \in DOMAIN mem
    /\ resp.result = mem[resp.sid]
    /\ resp.sid \in DOMAIN disk
    /\ disk[resp.sid] # Corrupt
    /\ disk[resp.sid] # to_dict(mem[resp.sid])

\* C13: update(id, partialFields) fails and changes neither the cache nor
\* durable storage when id is unknown; otherwise it overwrites only the named
\* fields, leaves every other field of that record and every other session's
\* record unchanged, and the durable record of id afterwards equals the
\* cached record minus the credential.
C13_UpdateFrame ==
    [][resp'.op = "update" =>
        LET sid == resp'.sid
            before == get_session(mem, disk, sid)
        IN  IF before = None
            THEN resp'.result = [ok |-> FALSE] /\ mem' = mem /\ disk' = disk
            ELSE /\ resp'.result = [ok |-> TRUE]
                 /\ sid \in DOMAIN mem'
                 /\ \E updates \in UpdateInputs(sid) \cup IdentityInputs(sid) :
                        \A f \in DOMAIN before :
                            mem'[sid][f] = IF f \in DOMAIN updates THEN updates[f]
                                           ELSE before[f]
                 /\ \A other \in StoreIds \ {sid} :
                        /\ get_session(mem', disk', other) = get_session(mem, disk, other)
                        /\ other \in DOMAIN disk =>
                              (other \in DOMAIN disk' /\ disk'[other] = disk[other])
                 /\ sid \in DOMAIN disk'
                 /\ DOMAIN disk'[sid] = (DOMAIN mem'[sid]) \ {"openai_api_key"}
                 /\ \A f \in DOMAIN disk'[sid] : disk'[sid][f] = mem'[sid][f]]_vars

\* C14: appendUpload(id, videoPath, framePath) on a known id appends
\* videoPath as the last element of uploaded_videos and framePath as the
\* last element of last_frames, advances current_step by exactly one unless
\* it already equals num_clips, and leaves all other fields and all other
\* sessions unchanged; on an unknown id it returns failure and creates no
\* record in the cache or in durable storage.
C14_AppendFrame ==
    [][resp'.op = "append" =>
        LET sid == resp'.sid
            before == get_session(mem, disk, sid)
            video_path == SilentVideoPath(sid, Len(before.uploaded_videos) + 1)
            frame_path == FramePath(sid, Len(before.uploaded_videos) + 1)
        IN  IF before = None
            THEN resp'.result = [ok |-> FALSE] /\ mem' = mem /\ disk' = disk
            ELSE /\ resp'.result = [ok |-> TRUE]
                 /\ sid \in DOMAIN mem'
                 /\ mem'[sid].uploaded_videos = before.uploaded_videos \o <<video_path>>
                 /\ mem'[sid].last_frames = before.last_frames \o <<frame_path>>
                 /\ mem'[sid].current_step =
                        IF before.current_step = before.num_clips
                        THEN before.current_step
                        ELSE before.current_step + 1
                 /\ \A f \in (DOMAIN before) \
                            {"uploaded_videos", "last_frames", "current_step"} :
                        mem'[sid][f] = before[f]
                 /\ \A other \in StoreIds \ {sid} :
                        /\ get_session(mem', disk', other) = get_session(mem, disk, other)
                        /\ other \in DOMAIN disk =>
                              (other \in DOMAIN disk' /\ disk'[other] = disk[other])]_vars

\* C15: create returns an identifier different from every
\* identifier already in the store, and the new record has current_step = 1
\* and empty uploaded_videos and last_frames, is present both in the cache
\* and in durable storage, and the creation changes no existing session's
\* record.
C15_CreateFreshAndStored ==
    [][resp'.op = "create" =>
        LET sid == resp'.result.session_id
        IN  /\ sid \notin issued /\ sid \notin DOMAIN mem /\ sid \notin DOMAIN disk
            /\ sid \in DOMAIN mem'
            /\ mem'[sid].session_id = sid
            /\ mem'[sid].current_step = 1
            /\ mem'[sid].uploaded_videos = << >>
            /\ mem'[sid].last_frames = << >>
            /\ sid \in DOMAIN disk'
            /\ \A f \in (DOMAIN mem'[sid]) \ {"openai_api_key"} :
                   f \in DOMAIN disk'[sid] /\ disk'[sid][f] = mem'[sid][f]
            /\ \A other \in DOMAIN mem : mem'[other] = mem[other]
            /\ \A other \in DOMAIN disk : disk'[other] = disk[other]]_vars

(***************************************************************************)
(* Properties of the prompt planner (SpecPlan).                            *)
(***************************************************************************)
\* C16: the prompt planner's output length always equals the requested clip
\* count, whichever strategy produced it: a primary response that is not a
\* list of exactly the requested length is rejected (its prompts are not
\* returned), and the fallback produces exactly the requested number of
\* prompts, in playback order.
C16_PlanLength ==
    resp.op = "plan" =>
        LET primary == call_openai_gpt(resp.scene_description, resp.num_clips, resp.gpt)
        IN  /\ Len(resp.prompts) = resp.num_clips
            /\ (resp.gpt.kind \notin {"list", "fenced"} \/ resp.gpt.len # resp.num_clips)
                  => primary.raised
            /\ primary.raised =>
                  /\ Len(FallbackPrompts(resp.scene_description, resp.num_clips))
                        = resp.num_clips
                  /\ resp.prompts = FallbackPrompts(resp.scene_description, resp.num_clips)

\* C17: for all valid clip counts N >= 1, the fallback path of the prompt
\* planner returns exactly N prompts, and for each i in 1..N the i-th prompt
\* is the original description followed by " (deel i van N)", so each prompt
\* contains the original description text and the prompts are numbered in
\* order; "a cat exploring a garden" with 3 clips gives the three prompts
\* ending in "(deel 1 van 3)", "(deel 2 van 3)", "(deel 3 van 3)".
C17_FallbackPrompts ==
    (/\ resp.op = "plan"
     /\ resp.num_clips >= 1
     /\ call_openai_gpt(resp.scene_description, resp.num_clips, resp.gpt).raised)
    => LET desc == resp.scene_description
           N == resp.num_clips
       IN  /\ Len(resp.prompts) = N
           /\ \A i \in 1..N :
                 LET p == resp.prompts[i]
                 IN  /\ SubSeq(p, 1, Len(desc)) = desc
                     /\ SubSeq(p, Len(desc) + 1, Len(p)) =
                            " (deel " \o ToString(i) \o " van " \o ToString(N) \o ")"
           /\ (desc = "a cat exploring a garden" /\ N = 3) =>
                 resp.prompts = << "a cat exploring a garden (deel 1 van 3)",
                                   "a cat exploring a garden (deel 2 van 3)",
                                   "a cat exploring a garden (deel 3 van 3)" >>

\* the planner fell back for three clips of "a cat exploring a garden"
C17_Witness ==
    /\ resp.op = "plan"
    /\ resp.scene_description = "a cat exploring a garden"
    /\ resp.num_clips = 3
    /\ resp.gpt.kind = "neterr"
    /\ Len(resp.prompts) = 3

\* C18: generate_clip_plan never reports a failure to its caller: on any
\* failure of the primary strategy (network error, non-OK response, no
\* choices, empty content, malformed JSON, not a list, wrong count) it
\* returns the deterministic fallback prompts, and it returns the primary
\* strategy's prompts exactly when the primary strategy succeeded.
C18_PlanNeverFails ==
    resp.op = "plan" =>
        LET succeeded == /\ resp.gpt.kind \in {"list", "fenced"}
                         /\ resp.gpt.len = resp.num_clips
        IN  /\ ~resp.raised
            /\ succeeded =>
                  /\ Len(resp.prompts) = resp.gpt.len
                  /\ \A i \in 1..resp.gpt.len :
                        resp.prompts[i] = "gpt clip " \o ToString(i)
            /\ ~succeeded =>
                  /\ Len(resp.prompts) = Len(FallbackPrompts("", resp.num_clips))
                  /\ \A i \in 1..Len(resp.prompts) :
                        resp.prompts[i] =
                            resp.scene_description \o FallbackPrompts("", resp.num_clips)[i]

\* the primary strategy answered with a list of the wrong length and the
\* caller got the fallback prompts
C18_Witness ==
    /\ resp.op = "plan"
    /\ resp.gpt.kind = "list"
    /\ resp.num_clips >= 1
    /\ resp.gpt.len # resp.num_clips
    /\ ~resp.raised
    /\ resp.prompts = FallbackPrompts(resp.scene_description, resp.num_clips)

(***************************************************************************)
(* Properties of the pipeline (Spec), continued.                           *)
(***************************************************************************)
\* C19: final concatenation is idempotent.  In the state a successful
\* concatenation of a session leaves, the session is still complete and all
\* its videos exist, so a second trigger passes the same checks; it writes
\* the same output path, which already exists and is overwritten, and the
\* manifest it writes has the same entries as the first (the file is
\* rewritten, not appended to): one entry per uploaded video, no duplicates
\* accumulate.
C19_ConcatIdempotent ==
    (resp.op = "generate_final" /\ resp.flash = "Video combination complete!")
    => LET sid == resp.sid
           session == get_session(mem, disk, sid)
       IN  /\ session # None
           /\ is_complete(mem, disk, sid)
           /\ \A i \in 1..Len(video_files(session)) : video_files(session)[i] \in files
           /\ concat_videos(sid, TRUE).output = resp.tools[1].output
           /\ resp.tools[1].output \in files
           /\ sid \in DOMAIN list_txt
           /\ manifest_written(list_txt, sid, session) = list_txt
           /\ Len(list_txt[sid]) = Len(session.uploaded_videos)
           /\ \A i \in 1..Len(list_txt[sid]) :
                 list_txt[sid][i] = Name(session.uploaded_videos[i])

\* a concatenation succeeded for a session with at least one uploaded video
C19_Witness ==
    /\ resp.op = "generate_final"
    /\ resp.flash = "Video combination complete!"
    /\ resp.sid \in DOMAIN mem
    /\ Len(mem[resp.sid].uploaded_videos) >= 1
    /\ Len(list_txt[resp.sid]) = Len(mem[resp.sid].uploaded_videos)

\* C20: in every upload, last-frame extraction is invoked only after the
\* audio-strip invocation of the same upload has succeeded, and its input is
\* the audio-stripped output of that invocation, never the original uploaded
\* file; the video recorded in the session is that same audio-stripped file.
C20_FrameFromSilentVideo ==
    (resp.op = "upload" /\ resp.tools # << >>)
    => LET t == resp.tools
       IN  /\ t[1].tool = "strip_audio"
           /\ t[1].input = VideoPath(resp.sid, resp.step)
           /\ t[1].output # t[1].input
           /\ \A i \in 1..Len(t) :
                 t[i].tool = "extract_last_frame" =>
                    /\ i = 2
                    /\ t[1].ok
                    /\ t[i].input = t[1].output
                    /\ t[i].input # t[1].input
           /\ ~IsError(resp) =>
                 /\ Len(t) = 2 /\ t[2].tool = "extract_last_frame"
                 /\ resp.sid \in DOMAIN mem
                 /\ Len(mem[resp.sid].uploaded_videos) >= 1
                 /\ mem[resp.sid].uploaded_videos[Len(mem[resp.sid].uploaded_videos)]
                        = t[1].output
                 /\ mem[resp.sid].last_frames[Len(mem[resp.sid].last_frames)]
                        = t[2].output

\* an upload ran both tools and was recorded in the session
C20_Witness ==
    /\ resp.op = "upload" /\ ~IsError(resp)
    /\ Len(resp.tools) = 2
    /\ resp.tools[2].tool = "extract_last_frame"
    /\ resp.tools[2].input = SilentVideoPath(resp.sid, resp.step)
    /\ resp.sid \in DOMAIN mem
    /\ SilentVideoPath(resp.sid, resp.step) \in files

\* C21: every step-bound action (view step, upload video, fetch image)
\* called with an unknown session identifier or with a step number outside
\* 1..num_clips is answered with a not-found/invalid response and does not
\* mutate any session record or write any file.
C21_StepBoundRejected ==
    [][\A sid \in SessionIds :
        LET before == get_session(mem, disk, sid)
        IN  (/\ resp'.op \in {"step", "upload", "image"} /\ resp'.sid = sid
             /\ \/ before = None
                \/ /\ Created(before) /\ before.num_clips >= 1
                   /\ (resp'.step < 1 \/ resp'.step > before.num_clips))
            => (/\ IsError(resp')
                /\ get_session(mem', disk', sid) = before
                /\ disk' = disk
                /\ files' = files)]_vars

\* C22: a request rejected for a validation error causes no persisted state
\* change: a create request missing the credential or the description
\* creates no session record (cache or durable) and no file, so no record
\* ever has an empty description; an upload request with no file, an empty
\* filename or a disallowed file type is rejected and leaves the session
\* record, the durable records and the session's files unchanged.
C22_RejectedChangesNothing ==
    [][/\ (/\ resp'.op = "create"
           /\ resp'.flash \in {"OpenAI API key is required",
                               "Scene description is required"})
          => (mem' = mem /\ disk' = disk /\ files' = files /\ issued' = issued)
       /\ \A sid \in DOMAIN mem' : mem'[sid].scene_description # ""
       /\ \A sid \in SessionIds, step_num \in StepNums :
            \A file \in {"absent", "empty", "txt"} :
                (get_session(mem, disk, sid) # None /\ Upload(sid, step_num, file, {"saved"}))
                => (/\ IsError(resp')
                    /\ resp'.tools = << >>
                    /\ get_session(mem', disk', sid) = get_session(mem, disk, sid)
                    /\ disk' = disk
                    /\ files' = files
                    /\ list_txt' = list_txt)]_vars

\* an upload of a disallowed file type was rejected for a session that
\* already has a recorded video
C22_Witness ==
    /\ resp.op = "upload"
    /\ resp.flash = "Invalid file type"
    /\ resp.sid \in DOMAIN mem
    /\ Len(mem[resp.sid].uploaded_videos) >= 1
    /\ SilentVideoPath(resp.sid, 1) \in files

(***************************************************************************)
(* Properties of interleaved upload requests (SpecRace).                   *)
(***************************************************************************)
\* C23: concurrent requests for the same session identifier are
\* unsynchronized.  A session record, cached or durable, in which
\* uploaded_videos[i] and last_frames[i] come from different uploads exists
\* only after two upload requests have been in progress at once: no such
\* state is reachable when requests run one at a time, and such a state is
\* reachable when their steps interleave (the witness).
C23_MisalignedOnlyByInterleaving ==
    LET misaligned(session) ==
            \E i \in 1..Min(Len(session.uploaded_videos), Len(session.last_frames)) :
                session.uploaded_videos[i].n # session.last_frames[i].n
    IN  \A sid \in SessionIds :
            (\/ sid \in DOMAIN mem /\ misaligned(mem[sid])
             \/ sid \in DOMAIN disk /\ disk[sid] # Corrupt /\ misaligned(disk[sid]))
            => overlapped

\* two interleaved uploads of one session have both ended, and the durable
\* record pairs the video of one with the frame of the other
C23_Witness ==
    \E sid \in DOMAIN disk :
        /\ inflight = EmptyDict
        /\ overlapped
        /\ resp.op = "upload" /\ ~IsError(resp)
        /\ Len(disk[sid].uploaded_videos) = 2
        /\ Len(disk[sid].last_frames) = 2
        /\ disk[sid].uploaded_videos[1].n # disk[sid].last_frames[1].n
        /\ disk[sid].uploaded_videos[2].n # disk[sid].last_frames[2].n

(***************************************************************************)
(* Properties of the archived batch variant's polling (SpecPoll).          *)
(***************************************************************************)
\* C24: poll_video_status enforces a bounded retry count.  It always
\* terminates; it returns exactly on status "completed", raises on status
\* "failed" and on a non-OK response (and lets the error of a request that
\* could not be sent escape), and raises the timeout error exactly after 120
\* polls that returned a non-terminal (pending, processing or unknown)
\* status; it never issues more than 120 status requests, and it has slept
\* the poll interval once after every non-terminal poll, so between any two
\* polls.
C24_PollBounded ==
    /\ [](/\ poll.requests <= 120
          /\ poll.sleeps = poll.poll_count
          /\ poll.requests - 1 <= poll.sleeps /\ poll.sleeps <= poll.requests
          /\ poll.result = "returned" <=> poll.last = "completed"
          /\ poll.result = "raised Video generation failed" <=> poll.last = "failed"
          /\ poll.result = "raised Status request failed" <=> poll.last = "notok"
          /\ poll.result = "raised ConnectionError" <=> poll.last = "neterr"
          /\ poll.result = "raised Video generation timeout" =>
                /\ poll.requests = 120 /\ poll.poll_count = 120 /\ poll.sleeps = 120
                /\ poll.last \in {"pending", "processing", "unknown"}
          /\ (poll.result = "running" /\ poll.requests = 120) =>
                poll.last \in {"pending", "processing", "unknown"})
    /\ <>(poll.result # "running")

\* the call gave up after 120 polls, the last of which reported an unknown
\* status
C24_Witness ==
    /\ poll.result = "raised Video generation timeout"
    /\ poll.requests = 120
    /\ poll.last = "unknown"

(***************************************************************************)
(* Properties of the session store, continued.                             *)
(***************************************************************************)
\* C25: a session's identifier is immutable: after any sequence of store
\* operations (create, get, update with any partial fields, appendUpload),
\* the session_id field of the record stored under key id equals id, in the
\* cache and in durable storage, and the durable record of one session is
\* never overwritten by an operation addressed to another identifier.
C25_IdentityImmutable ==
    [][resp'.op \in {"create", "get", "update", "append"} =>
        /\ \A sid \in DOMAIN mem' : mem'[sid].session_id = sid
        /\ \A sid \in DOMAIN disk' :
              disk'[sid] # Corrupt => disk'[sid].session_id = sid
        /\ \A other \in (DOMAIN disk) \ {resp'.sid} :
              other \in DOMAIN disk' /\ disk'[other] = disk[other]]_vars

(***************************************************************************)
(* Properties of the pipeline (Spec), continued.                           *)
(***************************************************************************)
\* C26: when final concatenation is refused because the session is
\* incomplete, the refusal reports which steps are missing: the response
\* identifies exactly the step numbers in 1..num_clips for which no video
\* has been uploaded.
C26_RefusalNamesMissingSteps ==
    \A sid \in SessionIds :
        (/\ resp.op \in {"generate_final", "combine"} /\ resp.sid = sid
         /\ resp.flash = "Not all videos have been uploaded"
         /\ sid \in DOMAIN mem /\ Created(mem[sid]))
        => reported_steps(resp) =
              {k \in 1..mem[sid].num_clips :
                  \A i \in 1..Len(mem[sid].uploaded_videos) :
                      mem[sid].uploaded_videos[i] # SilentVideoPath(sid, k)}

\* C27: the create action accepts either source of the starting image:
\* whenever the request carries no usable uploaded file (file field absent,
\* empty, or with a disallowed extension) but carries a URL whose fetch
\* succeeds, the session is created with the image fetched from the URL as
\* its starting image.
C27_UrlWhenNoUsableFile ==
    [][\A sid \in SessionIds, nc \in NumClipsInputs, gpt \in GptResponses :
        \A file \in {"absent", "empty", "txt"} :
            Create(sid, "sk", "scene", nc, gpt, file, "good", "saved", "saved")
            => (/\ ~IsError(resp')
                /\ sid \in DOMAIN mem'
                /\ mem'[sid].starting_image_path = StartingImageJpg(sid)
                /\ StartingImageJpg(sid) \in files'
                /\ sid \in DOMAIN disk')]_vars

\* C28: in every reachable state of every session, the number of uploaded
\* videos never exceeds num_clips and no step's video is recorded more than
\* once: uploading again for a step that already has a recorded video does
\* not add a second entry to uploaded_videos or last_frames.
C28_OneVideoPerStep ==
    \A sid \in DOMAIN mem :
        (Created(mem[sid]) /\ mem[sid].num_clips >= 1)
        => LET videos == mem[sid].uploaded_videos
               frames == mem[sid].last_frames
           IN  /\ Len(videos) <= mem[sid].num_clips
               /\ \A i, j \in 1..Len(videos) : i # j => videos[i] # videos[j]
               /\ \A i, j \in 1..Len(frames) : i # j => frames[i] # frames[j]

\* C29: a freshly created session is never complete: for every clip count
\* the create action accepts, is_complete is false until at least one video
\* has been uploaded, so final concatenation is never invoked with an empty
\* list of videos.
C29_FreshSessionIncomplete ==
    \A sid \in SessionIds :
        LET session == get_session(mem, disk, sid)
        IN  /\ (session # None /\ Created(session) /\ session.uploaded_videos = << >>)
               => ~is_complete(mem, disk, sid)
            /\ (resp.op = "generate_final" /\ resp.sid = sid /\ resp.tools # << >>)
               => (sid \in DOMAIN list_txt /\ list_txt[sid] # << >>)

\* C30: a store mutation reports success only if it was persisted: whenever
\* create, update or appendUpload returns success, the durable record of
\* that identifier equals the cached record minus the credential, also when
\* the durable write fails.
C30_SuccessMeansPersisted ==
    (/\ resp.op \in {"create", "update", "append"}
     /\ resp.result \in {[ok |-> TRUE], [session_id |-> resp.sid]})
    => (/\ resp.sid \in DOMAIN mem
        /\ resp.sid \in DOMAIN disk
        /\ DOMAIN disk[resp.sid] = (DOMAIN mem[resp.sid]) \ {"openai_api_key"}
        /\ \A f \in DOMAIN disk[resp.sid] : disk[resp.sid][f] = mem[resp.sid][f])

(***************************************************************************)
(* Properties of the session store, continued.                             *)
(***************************************************************************)
\* C31: persist-then-load round trip.  When the cache does not hold the
\* session (process restart) and it is loaded from its durable record, the
\* loaded record equals the record that was last persisted in every field
\* (identifier, description, starting image, prompts, current step, uploaded
\* videos, last frames, clip count) except the credential, which is the
\* empty string; and persisting any cached record and loading it back gives
\* that record with an empty credential.
C31_PersistLoadRoundTrip ==
    [][/\ \A sid \in DOMAIN mem :
            from_dict(to_dict(mem[sid])) = [mem[sid] EXCEPT !.openai_api_key = ""]
       /\ (/\ resp'.op = "get"
           /\ resp'.sid \notin DOMAIN mem
           /\ resp'.result # None)
          => LET sid == resp'.sid
                 loaded == resp'.result
                 fields == {"session_id", "scene_description", "starting_image_path",
                            "prompts", "current_step", "uploaded_videos",
                            "last_frames", "num_clips"}
             IN  /\ sid \in DOMAIN disk
                 /\ DOMAIN disk[sid] = fields
                 /\ DOMAIN loaded = fields \cup {"openai_api_key"}
                 /\ \A f \in fields : loaded[f] = disk[sid][f]
                 /\ loaded.openai_api_key = ""
                 /\ mem'[sid] = loaded]_vars

\* after a restart a session with one recorded upload was loaded from its
\* durable record
C31_Witness ==
    /\ resp.op = "get"
    /\ resp.result # None
    /\ resp.result.openai_api_key = ""
    /\ Len(resp.result.uploaded_videos) = 1
    /\ resp.result.current_step = 2
    /\ resp.sid \in DOMAIN disk
    /\ disk[resp.sid] = to_dict(resp.result)

\* C32: download serves final_output.mp4, and the combine page shows it as
\* the combined result, only if the most recent concatenation of the session
\* succeeded and ran over the session's current uploaded videos: right after
\* a failed concatenation of a session with one upload per clip, and right
\* after an upload that changed the uploaded videos while an output file
\* existed, neither presents an output file.
C32_DownloadOnlyFreshOutput ==
    [][\A sid \in SessionIds :
        LET session == get_session(mem, disk, sid)
            failed_concat ==
                /\ resp.op = "generate_final" /\ resp.sid = sid
                /\ resp.flash = "Error combining videos"
                /\ session # None
                /\ Created(session) /\ session.num_clips >= 1
                /\ Len(session.uploaded_videos) = session.num_clips
            later_upload ==
                /\ resp.op = "upload" /\ resp.sid = sid
                /\ resp.flash = "" /\ resp.to \in {"next_step", "combine"}
                /\ session # None
                /\ Created(session) /\ session.num_clips >= 1
                /\ FinalOutput(sid) \in files
        IN  (/\ resp'.sid = sid
             /\ failed_concat \/ later_upload)
            => /\ resp'.op = "download" => resp'.kind # "send_file"
               /\ resp'.op = "combine" => resp'.image = NoPath]_vars

====
